---- MODULE Spec2Model ----
(***************************************************************************)
(* Model of mini_assembler.py: AssemblyParser.parse_assembly (the line     *)
(* loader, the regex recogniser and the numbering check) and               *)
(* AssemblyParser.run driven by AssemblyParser.instruction_generator.      *)
(*                                                                         *)
(* A source line is a sequence of string tokens; the text of the line is   *)
(* the tokens of its "(N) " marker followed by the tokens of the statement *)
(* separated as the regular expressions of the source require.             *)
(***************************************************************************)
EXTENDS Integers, Sequences, FiniteSets, TLC

(***************************************************************************)
(* Bounds of the model.                                                    *)
(***************************************************************************)
\* longest source file, in physical lines
MaxLines == 3
\* the generator's limit argument (run() uses the default, 300); the
\* generator only compares count with limit, so a small limit shows every
\* position of the cutoff
StepLimit == 2
\* number of run() calls on one parser
MaxRuns == 2

(***************************************************************************)
(* Optional values: Python's None is the empty sequence, a value v is <<v>> *)
(***************************************************************************)
None == <<>>

Some(v) == <<v>>

\* marker of an attribute an Instruction object does not have
NoAttr == "-"

\* jump_to of an Instruction that has no jump_to attribute
NoJump == -1

(***************************************************************************)
(* Lexical classes of the regular expressions.                             *)
(***************************************************************************)
\* [a-zA-Z], restricted to the letters the model's sources use
Letters == {"x", "y", "z"}

\* the decimal numerals of the model's sources, numeral k at index k + 1
Digits == <<"0", "1", "2", "3", "4", "5", "6", "7", "8", "9">>

\* \d+ restricted to one digit
IsDigits(t) == \E k \in 1..Len(Digits) : Digits[k] = t

\* int(text) of a numeral
IntOf(t) == (CHOOSE k \in 1..Len(Digits) : Digits[k] = t) - 1

IsLetter(t) == t \in Letters

(***************************************************************************)
(* The two pattern tables, in dictionary order.                            *)
(***************************************************************************)
basic_instructions == <<"jump_zero", "inc", "dec", "jump", "halt", "set_zero">>

ext_instructions == <<"transfer", "add", "abs_diff">>

\* re.fullmatch(regex of key, code) succeeds
Matches(key, c) ==
  CASE key = "jump_zero" ->
         /\ Len(c) = 8
         /\ c[1] = "if" /\ c[2] = "(" /\ IsLetter(c[3]) /\ c[4] = "=="
         /\ c[5] = "0" /\ c[6] = ")" /\ c[7] = "goto" /\ IsDigits(c[8])
    [] key = "inc" ->
         /\ Len(c) = 5
         /\ IsLetter(c[1]) /\ c[2] = "=" /\ c[3] = c[1] /\ c[4] = "+"
         /\ c[5] = "1"
    [] key = "dec" ->
         /\ Len(c) = 5
         /\ IsLetter(c[1]) /\ c[2] = "=" /\ c[3] = c[1] /\ c[4] = "-"
         /\ c[5] = "1"
    [] key = "jump" ->
         /\ Len(c) = 2
         /\ c[1] = "goto" /\ IsDigits(c[2])
    [] key = "halt" ->
         /\ Len(c) = 1
         /\ c[1] = "stop"
    [] key = "set_zero" ->
         /\ Len(c) = 3
         /\ IsLetter(c[1]) /\ c[2] = "=" /\ c[3] = "0"
    [] key = "transfer" ->
         /\ Len(c) = 3
         /\ IsLetter(c[1]) /\ c[2] = "=" /\ IsLetter(c[3])
    [] key = "add" ->
         /\ Len(c) = 5
         /\ IsLetter(c[1]) /\ c[2] = "=" /\ c[3] = c[1] /\ c[4] = "+"
         /\ IsLetter(c[5])
    [] key = "abs_diff" ->
         /\ Len(c) = 8
         /\ IsLetter(c[1]) /\ c[2] = "=" /\ c[3] = "abs" /\ c[4] = "("
         /\ IsLetter(c[5]) /\ c[6] = "-" /\ IsLetter(c[7]) /\ c[8] = ")"
    [] OTHER -> FALSE

\* the capture groups match[1], match[2], match[3] of a successful match
Groups(key, c) ==
  CASE key = "jump_zero" -> <<c[3], c[8]>>
    [] key \in {"inc", "dec", "set_zero"} -> <<c[1]>>
    [] key = "jump" -> <<c[2]>>
    [] key = "transfer" -> <<c[1], c[3]>>
    [] key = "add" -> <<c[1], c[5]>>
    [] key = "abs_diff" -> <<c[1], c[5], c[7]>>
    [] OTHER -> <<>>

\* Instruction.__init__: the attributes set for each key
Instruction(line_no, key, match) ==
  [line_no     |-> line_no,
   key         |-> key,
   value_one   |-> IF key \in {"jump_zero", "inc", "dec", "set_zero",
                               "transfer", "add", "abs_diff"}
                   THEN match[1] ELSE NoAttr,
   value_two   |-> IF key \in {"transfer", "add", "abs_diff"}
                   THEN match[2] ELSE NoAttr,
   value_three |-> IF key = "abs_diff" THEN match[3] ELSE NoAttr,
   jump_to     |-> IF key = "jump_zero" THEN IntOf(match[2])
                   ELSE IF key = "jump" THEN IntOf(match[1])
                   ELSE NoJump]

Min(S) == CHOOSE m \in S : \A n \in S : m <= n

\* the key the two loops over the tables find for a statement under
\* extension level e, or "" when found stays False
Recognize(c, e) ==
  LET basic == {k \in 1..Len(basic_instructions) :
                  Matches(basic_instructions[k], c)}
      extd  == {k \in 1..Len(ext_instructions) :
                  (k - 1) <= e /\ Matches(ext_instructions[k], c)}
  IN  IF basic # {} THEN basic_instructions[Min(basic)]
      ELSE IF extd # {} THEN ext_instructions[Min(extd)]
      ELSE ""

(***************************************************************************)
(* The instruction dictionary: <<key, value>> items in insertion order.    *)
(***************************************************************************)
\* list(d.keys())
Keys(d) == [j \in 1..Len(d) |-> d[j].k]

KeySet(d) == {d[j].k : j \in 1..Len(d)}

\* d.get(n) is an Instruction (truthy), not None
HasKey(d, n) == n \in KeySet(d)

\* d[n]
Lookup(d, n) == d[CHOOSE j \in 1..Len(d) : d[j].k = n].v

\* d[n] = inst: a new key goes last, an old key keeps its place
DictSet(d, n, inst) ==
  IF HasKey(d, n)
  THEN [j \in 1..Len(d) |-> IF d[j].k = n THEN [k |-> n, v |-> inst] ELSE d[j]]
  ELSE Append(d, [k |-> n, v |-> inst])

(***************************************************************************)
(* parse_assembly                                                          *)
(***************************************************************************)
\* line.startswith("//")
IsComment(line) == Len(line) >= 1 /\ line[1] = "//"

\* re.match(r"\((\d+)\) (.*)", line)
LineMatch(line) ==
  /\ Len(line) >= 3
  /\ line[1] = "(" /\ IsDigits(line[2]) /\ line[3] = ")"

\* the statement of a numbered line
CodeOf(line) == SubSeq(line, 4, Len(line))

\* the loader without the test: a repeated number is stored again
IsDuplicate_Never(insts, line_number) == FALSE

\* if self.instructions.get(line_number): an Instruction object is truthy,
\* so the test is true exactly when the number is a key
IsDuplicate(insts, line_number) == HasKey(insts, line_number)

\* the loop over the lines of the file from line k on, with the dictionary
\* so far; err is "" when the loop ends without raising
RECURSIVE ParseLoop(_, _, _, _)
ParseLoop(lines, k, insts, e) ==
  IF k > Len(lines) THEN [insts |-> insts, err |-> ""]
  ELSE
    LET line == lines[k] IN
    IF IsComment(line) THEN ParseLoop(lines, k + 1, insts, e)
    ELSE IF ~LineMatch(line) THEN [insts |-> insts, err |-> "NoLineNumber"]
    ELSE
      LET line_number == IntOf(line[2])
          code        == CodeOf(line)
          key         == Recognize(code, e)
      IN  IF IsDuplicate(insts, line_number)
          THEN [insts |-> insts, err |-> "Duplicate"]
          ELSE IF key = ""
          THEN [insts |-> insts, err |-> "NoMatch"]
          ELSE ParseLoop(lines, k + 1,
                         DictSet(insts, line_number,
                                 Instruction(line_number, key,
                                             Groups(key, code))), e)

\* the identifiers mentioned by the instructions
Mentioned(insts) ==
  UNION {{insts[j].v.value_one, insts[j].v.value_two, insts[j].v.value_three}
           : j \in 1..Len(insts)} \ {NoAttr}

\* the variable dictionary with the start state laid over the mentioned
\* identifiers only: a binding for an unused identifier is dropped
BuildVariables_MentionedOnly(insts, start) ==
  [v \in Mentioned(insts) |->
     IF v \in DOMAIN start THEN Some(start[v]) ELSE None]

\* the variable dictionary: None for every identifier mentioned, then the
\* start state laid over it
BuildVariables(insts, start) ==
  [v \in Mentioned(insts) \cup DOMAIN start |->
     IF v \in DOMAIN start THEN Some(start[v]) ELSE None]

\* the numbering check as it would be on the sorted keys
Contiguous_Sorted(insts) == KeySet(insts) = 1..Len(insts)

\* the numbering check stopping after the first key
Contiguous_FirstOnly(insts) == Len(insts) = 0 \/ Keys(insts)[1] = 1

\* the final loop: the i-th key, in dictionary order, must be i
Contiguous(insts) == \A j \in 1..Len(insts) : Keys(insts)[j] = j

(***************************************************************************)
(* instruction_generator                                                   *)
(***************************************************************************)
\* the generator's locals at its creation
GenInit == [instruction |-> 1, count |-> 0, done |-> FALSE]

\* top of the while loop: break when count > limit, else yield instruction
GenTop(g, limit) == [g EXCEPT !.done = g.count > limit]

\* the generator taking the step of a send back, so that a jump and the
\* next() after it cost nothing
GenResume_FreeJump(g, jump, limit) ==
  GenTop([instruction |-> IF jump # None THEN jump[1] - 1
                          ELSE g.instruction + 1,
          count       |-> IF jump # None THEN g.count - 1 ELSE g.count + 1,
          done        |-> FALSE], limit)

\* the generator resumed from its yield with the value jump (None for
\* next(), <<target>> for send(target)) up to its next yield or its return
GenResume(g, jump, limit) ==
  GenTop([instruction |-> IF jump # None THEN jump[1] - 1
                          ELSE g.instruction + 1,
          count       |-> g.count + 1,
          done        |-> FALSE], limit)

(***************************************************************************)
(* run: the body of the for loop for one instruction                       *)
(***************************************************************************)
Abs(n) == IF n < 0 THEN -n ELSE n

\* self.variables[name] = value
SetVar(vars, name, value) ==
  [v \in DOMAIN vars \cup {name} |-> IF v = name THEN value ELSE vars[v]]

\* the result of a branch of the body: the variable dictionary and the
\* generator after it, and how it ends ("next": the loop goes on to its
\* next(); "halt": break; otherwise the exception that escapes run())
Result(vars, g, status) == [variables |-> vars, gen |-> g, status |-> status]

\* generator.send(inst.jump_to): StopIteration escapes when the generator
\* returns instead of yielding
Send(inst, vars, g, limit) ==
  LET sent == GenResume(g, Some(inst.jump_to), limit)
  IN  Result(vars, sent, IF sent.done THEN "StopIteration" ELSE "next")

\* self.variables[name] raises KeyError for a name that is no key
Missing(vars, names) == \E n \in names : n \notin DOMAIN vars

\* the test written "not self.variables[...]": None jumps as 0 does
BodyJumpZero_Falsy(inst, vars, g, limit) ==
  IF Missing(vars, {inst.value_one}) THEN Result(vars, g, "VarKeyError")
  ELSE IF vars[inst.value_one] \in {None, Some(0)}
  THEN Send(inst, vars, g, limit)
  ELSE Result(vars, g, "next")

BodyJumpZero(inst, vars, g, limit) ==
  IF Missing(vars, {inst.value_one}) THEN Result(vars, g, "VarKeyError")
  ELSE IF vars[inst.value_one] = Some(0) THEN Send(inst, vars, g, limit)
  ELSE Result(vars, g, "next")

\* the increment without its None test, None counting as 0
BodyInc_NoneAsZero(inst, vars, g) ==
  IF Missing(vars, {inst.value_one}) THEN Result(vars, g, "VarKeyError")
  ELSE IF vars[inst.value_one] = None
  THEN Result(SetVar(vars, inst.value_one, Some(1)), g, "next")
  ELSE Result(SetVar(vars, inst.value_one, Some(vars[inst.value_one][1] + 1)),
              g, "next")

BodyInc(inst, vars, g) ==
  IF Missing(vars, {inst.value_one}) THEN Result(vars, g, "VarKeyError")
  ELSE IF vars[inst.value_one] = None THEN Result(vars, g, "TypeError")
  ELSE Result(SetVar(vars, inst.value_one, Some(vars[inst.value_one][1] + 1)),
              g, "next")

\* the decrement of a counter machine over the naturals: 0 stays 0
BodyDec_FloorZero(inst, vars, g) ==
  IF Missing(vars, {inst.value_one}) THEN Result(vars, g, "VarKeyError")
  ELSE IF vars[inst.value_one] = None THEN Result(vars, g, "TypeError")
  ELSE Result(SetVar(vars, inst.value_one,
                     Some(IF vars[inst.value_one][1] = 0 THEN 0
                          ELSE vars[inst.value_one][1] - 1)),
              g, "next")

BodyDec(inst, vars, g) ==
  IF Missing(vars, {inst.value_one}) THEN Result(vars, g, "VarKeyError")
  ELSE IF vars[inst.value_one] = None THEN Result(vars, g, "TypeError")
  ELSE Result(SetVar(vars, inst.value_one, Some(vars[inst.value_one][1] - 1)),
              g, "next")

BodySetZero(inst, vars, g) ==
  Result(SetVar(vars, inst.value_one, Some(0)), g, "next")

\* the transfer that exchanges the two variables
BodyTransfer_Swap(inst, vars, g) ==
  IF Missing(vars, {inst.value_two}) THEN Result(vars, g, "VarKeyError")
  ELSE Result(SetVar(SetVar(vars, inst.value_one, vars[inst.value_two]),
                     inst.value_two, vars[inst.value_one]), g, "next")

\* the transfer that refuses an uninitialised source, as Increment does
BodyTransfer_RaiseOnNone(inst, vars, g) ==
  IF Missing(vars, {inst.value_two}) THEN Result(vars, g, "VarKeyError")
  ELSE IF vars[inst.value_two] = None THEN Result(vars, g, "TypeError")
  ELSE Result(SetVar(vars, inst.value_one, vars[inst.value_two]), g, "next")

\* self.variables[inst.value_one] = self.variables[inst.value_two]
BodyTransfer(inst, vars, g) ==
  IF Missing(vars, {inst.value_two}) THEN Result(vars, g, "VarKeyError")
  ELSE Result(SetVar(vars, inst.value_one, vars[inst.value_two]), g, "next")

\* x + y of a None operand raises Python's own TypeError
BodyAdd(inst, vars, g) ==
  IF Missing(vars, {inst.value_one, inst.value_two})
  THEN Result(vars, g, "VarKeyError")
  ELSE IF vars[inst.value_one] = None \/ vars[inst.value_two] = None
  THEN Result(vars, g, "OperandTypeError")
  ELSE Result(SetVar(vars, inst.value_one,
                     Some(vars[inst.value_one][1] + vars[inst.value_two][1])),
              g, "next")

BodyAbsDiff(inst, vars, g) ==
  IF Missing(vars, {inst.value_two, inst.value_three})
  THEN Result(vars, g, "VarKeyError")
  ELSE IF vars[inst.value_two] = None \/ vars[inst.value_three] = None
  THEN Result(vars, g, "OperandTypeError")
  ELSE Result(SetVar(vars, inst.value_one,
                     Some(Abs(vars[inst.value_two][1]
                              - vars[inst.value_three][1]))),
              g, "next")

\* the halt branch without its break: the loop goes on to the next line
BodyHalt_NoBreak(inst, vars, g) == Result(vars, g, "next")

\* if inst.key == "halt": break
BodyHalt(inst, vars, g) == Result(vars, g, "halt")

\* the chain of ifs on inst.key; every branch but jump and halt reads
\* self.variables, an attribute that exists only once a parse_assembly()
\* got past its loop
Body(inst, vars, hasvars, g, limit) ==
  CASE inst.key = "jump" -> Send(inst, vars, g, limit)
    [] inst.key = "halt" -> BodyHalt(inst, vars, g)
    [] inst.key \notin {"jump", "halt"} /\ ~hasvars ->
         Result(vars, g, "AttributeError")
    [] inst.key = "jump_zero" /\ hasvars -> BodyJumpZero(inst, vars, g, limit)
    [] inst.key = "inc" /\ hasvars -> BodyInc(inst, vars, g)
    [] inst.key = "dec" /\ hasvars -> BodyDec(inst, vars, g)
    [] inst.key = "set_zero" /\ hasvars -> BodySetZero(inst, vars, g)
    [] inst.key = "transfer" /\ hasvars -> BodyTransfer(inst, vars, g)
    [] inst.key = "add" /\ hasvars -> BodyAdd(inst, vars, g)
    [] inst.key = "abs_diff" /\ hasvars -> BodyAbsDiff(inst, vars, g)

\* the end of a branch with the break of the halt branch moved under its
\* "if verbose:"
BranchEnd_BreakUnderIf(inst, status, verb) ==
  LET st == IF inst.key = "halt" /\ ~verb THEN "next" ELSE status
  IN  [status |-> st,
       out |-> IF verb /\ st \in {"next", "halt"} THEN <<inst.line_no>>
               ELSE <<>>]

\* the end of the branch of inst under the verbose flag, status being how
\* the statements of the branch went: each branch ends with
\* "if verbose: print(f"{i}: ...")" (before the break in the halt branch),
\* which is reached unless the branch has raised; out is the line number
\* the printed line starts with, status how the branch ends
BranchEnd(inst, status, verb) ==
  [status |-> status,
   out |-> IF verb /\ status \in {"next", "halt"} THEN <<inst.line_no>>
           ELSE <<>>]

\* the fetch by self.instructions.pop(i): the line leaves the dictionary
Fetch_Pop(d, n) ==
  [inst |-> Lookup(d, n), table |-> SelectSeq(d, LAMBDA e : e.k # n)]

\* inst = self.instructions[i]: the instruction read, and the dictionary as
\* the read leaves it
Fetch(d, n) == [inst |-> Lookup(d, n), table |-> d]

\* the lookup whose except clause leaves the loop instead of raising
LookupOutcome_Break(d, n) == IF HasKey(d, n) THEN "found" ELSE "halt"

\* try: inst = self.instructions[i]; except KeyError: raise KeyError(...)
LookupOutcome(d, n) == IF HasKey(d, n) THEN "found" ELSE "KeyError"

(***************************************************************************)
(* The sources, start states and extension levels the model is run on.     *)
(***************************************************************************)
\* a comment line
CommentLine == <<"//">>

\* a line whose "(N) " marker is broken
BareLine == <<"1", ")", "stop">>

Unnumbered == {CommentLine, BareLine}

\* the statements of the sources that are run: the six basic forms and the
\* one extension form self.ext lets through
RunStatements ==
  { <<"if", "(", "x", "==", "0", ")", "goto", "3">>,
    <<"x", "=", "x", "+", "1">>,
    <<"x", "=", "x", "-", "1">>,
    <<"goto", "1">>,
    <<"goto", "3">>,
    <<"stop">>,
    <<"x", "=", "0">>,
    <<"x", "=", "y">> }

\* the lines of the sources that exercise the loader: two basic forms, the
\* three extension forms, a comment and a line without marker
LoadStatements ==
  { <<"x", "=", "0">>,
    <<"stop">>,
    <<"y", "=", "x">>,
    <<"x", "=", "x", "+", "y">>,
    <<"x", "=", "abs", "(", "x", "-", "y", ")">>,
    CommentLine,
    BareLine }

\* how the numbered lines of a source are numbered: r is the rank of the
\* line among the n numbered lines
Schemes == {"up", "down", "gap", "dup"}

Number(scheme, r, n) ==
  CASE scheme = "up"   -> r
    [] scheme = "down" -> n + 1 - r
    [] scheme = "gap"  -> IF r = n THEN n + 1 ELSE r
    [] scheme = "dup"  -> IF r = n /\ n > 1 THEN r - 1 ELSE r

Render(s, scheme) ==
  LET numbered(k) == {j \in 1..k : s[j] \notin Unnumbered}
      n == Cardinality(numbered(Len(s)))
  IN  [k \in 1..Len(s) |->
         IF s[k] \in Unnumbered THEN s[k]
         ELSE <<"(", Digits[Number(scheme, Cardinality(numbered(k)), n) + 1],
                ")">> \o s[k]]

\* the sequences of at most MaxLines elements of S
UpTo(S) == UNION {[1..n -> S] : n \in 0..MaxLines}

\* start_state: no binding (None or {}), or integers for some identifiers
NoBindings == [v \in {} |-> 0]

StartStates ==
  { NoBindings,
    [v \in {"x"} |-> 0],
    [v \in {"x", "y"} |-> IF v = "x" THEN 1 ELSE 0] }

\* the ext argument
ExtLevels == {-1, 0, 1, 2}

\* the constructor's arguments <<file, start_state, ext>>: programs numbered
\* 1..N built with the default ext under every start state, and loader
\* sources under every numbering scheme and every ext
ProgramInputs ==
  {<<Render(s, "up"), st, -1>> : s \in UpTo(RunStatements), st \in StartStates}

LoaderInputs ==
  {<<Render(s, scheme), [v \in {"x"} |-> 1], e>> :
     s \in UpTo(LoadStatements), scheme \in Schemes, e \in ExtLevels}

Inputs == ProgramInputs \cup LoaderInputs

\* the programs run for termination: numbered 1..N, of the statements that
\* make and leave loops, under the start states that bind x
LoopStatements ==
  RunStatements \ { <<"x", "=", "x", "-", "1">>, <<"x", "=", "y">> }

LoopInputs ==
  {<<Render(s, "up"), st, -1>> :
     s \in UpTo(LoopStatements), st \in StartStates \ {NoBindings}}

(***************************************************************************)
(* The state of one AssemblyParser and of its run() call.                  *)
(***************************************************************************)
VARIABLES
  file,          \* the lines of self.file
  start_state,   \* self.start_state
  ext_arg,       \* the ext argument of the constructor
  ext,           \* self.ext
  instructions,  \* self.instructions
  variables,     \* self.variables
  has_variables, \* the attribute self.variables exists
  parse_result,  \* how the last parse_assembly() ended ("none" before any)
  parsed_ok,     \* some parse_assembly() returned without raising
  rstate,        \* "idle", "running", or how the last run() ended
  gen,           \* the generator of the run() in progress
  i,             \* the loop variable of run()
  executed,      \* instructions dispatched by the current or last run()
  runs,          \* run() calls so far
  verbose,       \* the verbose argument of the current or last run()
  trace,         \* the line numbers that run() has executed, in order
  printed        \* the line numbers of the lines that run() has printed

vars == <<file, start_state, ext_arg, ext, instructions, variables,
          has_variables, parse_result, parsed_ok, rstate, gen, i, executed,
          runs, verbose, trace, printed>>

\* AssemblyParser.__init__ with its arguments drawn from the set In
Construct(In) ==
  /\ \E inp \in In :
       /\ file = inp[1]
       /\ start_state = inp[2]
       /\ ext_arg = inp[3]
  /\ ext = 0
  /\ instructions = <<>>
  /\ variables = NoBindings
  /\ has_variables = FALSE
  /\ parse_result = "none"
  /\ parsed_ok = FALSE
  /\ rstate = "idle"
  /\ gen = GenInit
  /\ i = 0
  /\ executed = 0
  /\ runs = 0
  /\ verbose = FALSE
  /\ trace = <<>>
  /\ printed = <<>>

Init == Construct(Inputs)

\* the parsers of the programs run for termination
InitLoops == Construct(LoopInputs)

\* one call of parse_assembly(), from its first line to its return or raise
ParseAssembly ==
  /\ rstate # "running"
  /\ LET r == ParseLoop(file, 1, instructions, ext) IN
       /\ instructions' = r.insts
       /\ IF r.err # ""
          THEN /\ parse_result' = r.err
               /\ UNCHANGED <<variables, has_variables>>
          ELSE /\ variables' = BuildVariables(r.insts, start_state)
               /\ has_variables' = TRUE
               /\ parse_result' = IF Contiguous(r.insts) THEN "ok"
                                  ELSE "NonContiguous"
       /\ parsed_ok' = (parsed_ok \/ (r.err = "" /\ Contiguous(r.insts)))
  /\ UNCHANGED <<file, start_state, ext_arg, ext, rstate, gen, i, executed,
                 runs, verbose, trace, printed>>

\* run(verbose) is called with verbose drawn from V: the generator is
\* created and the for loop takes its first value
RunCallWith(V) ==
  /\ rstate # "running"
  /\ runs < MaxRuns
  /\ runs' = runs + 1
  /\ verbose' \in V
  /\ executed' = 0
  /\ trace' = <<>>
  /\ printed' = <<>>
  /\ LET g == GenTop(GenInit, StepLimit) IN
       /\ gen' = g
       /\ rstate' = IF g.done THEN "cutoff" ELSE "running"
       /\ i' = IF g.done THEN i ELSE g.instruction
  /\ UNCHANGED <<file, start_state, ext_arg, ext, instructions, variables,
                 has_variables, parse_result, parsed_ok>>

\* run(), with the default verbose=False
RunCall == RunCallWith({FALSE})

\* run() or run(verbose=True)
RunCallVerbose == RunCallWith(BOOLEAN)

\* the counter of executed instructions after one more: it stops counting
\* past StepLimit + 2, which is more than a run can execute
Count(n) == IF n >= StepLimit + 2 THEN n ELSE n + 1

\* the executed lines after line n, recorded as far as Count counts
Log(t, n) == IF Len(t) >= StepLimit + 2 THEN t ELSE Append(t, n)

\* one iteration of the for loop of run(): the lookup of instructions[i],
\* the body, and the next() of the loop
RunStep ==
  /\ rstate = "running"
  /\ IF LookupOutcome(instructions, i) # "found"
     THEN /\ rstate' = LookupOutcome(instructions, i)
          /\ UNCHANGED <<instructions, variables, gen, i, executed, trace,
                         printed>>
     ELSE LET f == Fetch(instructions, i)
              b == Body(f.inst, variables, has_variables, gen, StepLimit)
              e == BranchEnd(f.inst, b.status, verbose)
              g == GenResume(b.gen, None, StepLimit)
          IN  /\ instructions' = f.table
              /\ executed' = Count(executed)
              /\ trace' = Log(trace, i)
              /\ printed' = printed \o e.out
              /\ variables' = b.variables
              /\ IF e.status # "next"
                 THEN /\ rstate' = e.status
                      /\ gen' = b.gen
                      /\ i' = i
                 ELSE /\ gen' = g
                      /\ rstate' = IF g.done THEN "cutoff" ELSE "running"
                      /\ i' = IF g.done THEN i ELSE g.instruction
  /\ UNCHANGED <<file, start_state, ext_arg, ext, has_variables,
                 parse_result, parsed_ok, runs, verbose>>

Next == ParseAssembly \/ RunCall \/ RunStep

Spec == Init /\ [][Next]_vars

\* run() is sequential code: a started loop iteration is carried out
FairSpec == InitLoops /\ [][Next]_vars /\ WF_vars(RunStep)

\* the parsers whose programs are run with and without the verbose flag:
\* the ones constructed with bindings
InitVerbose == Construct({inp \in ProgramInputs : inp[2] # NoBindings})

NextVerbose == ParseAssembly \/ RunCallVerbose \/ RunStep

VerboseSpec == InitVerbose /\ [][NextVerbose]_vars

(***************************************************************************)
(* Notions the properties below are stated with.                           *)
(***************************************************************************)
\* run() is over
Ended == rstate \notin {"idle", "running"}

\* the line the program counter refers to: the loop variable while a line
\* is being executed or has ended the run, the generator's instruction once
\* it has been advanced (send leaves it one short of the target until the
\* following next())
ProgramCounter ==
  CASE rstate = "cutoff" -> gen.instruction
    [] rstate = "StopIteration" -> gen.instruction + 1
    [] OTHER -> i

\* the instruction the loop is about to execute
Current == Lookup(instructions, i)

\* a loop iteration is about to execute an instruction of kind key
Executing(key) ==
  /\ rstate = "running"
  /\ HasKey(instructions, i)
  /\ Current.key = key

\* the numbers of the numbered lines of the file, in physical order
LineNumbers ==
  LET numbered == SelectSeq(file, LAMBDA l : ~IsComment(l) /\ LineMatch(l))
  IN  [j \in 1..Len(numbered) |-> IntOf(numbered[j][2])]

(***************************************************************************)
(* C1: when run() of a successfully parsed program exhausts the step       *)
(* budget it returns normally, whichever instruction is being executed:    *)
(* once the generator has returned, run() has ended by the cutoff and by   *)
(* no exception.                                                           *)
(***************************************************************************)
C1_CutoffReturnsNormally == (parsed_ok /\ gen.done) => rstate = "cutoff"

(***************************************************************************)
(* C2, as claimed: whenever the program counter refers to a line that is   *)
(* absent from the instruction set, run() ends with the KeyError, wherever *)
(* the step budget stands.                                                 *)
(***************************************************************************)
C2_AbsentLineAlwaysRaises ==
  (Ended /\ ~HasKey(instructions, ProgramCounter)) => rstate = "KeyError"

(***************************************************************************)
(* C2, amended: a run that ends with the program counter at an absent line *)
(* while the step budget is not exhausted (count <= limit) ends with the   *)
(* KeyError; with the budget exhausted it ends by the cutoff instead.      *)
(***************************************************************************)
C2_AbsentLineRaisesWithinBudget ==
  (Ended /\ ~HasKey(instructions, ProgramCounter) /\ gen.count <= StepLimit)
    => rstate = "KeyError"

\* a jump to a line that does not exist has raised the KeyError
C2_Witness ==
  /\ rstate = "KeyError"
  /\ executed >= 1
  /\ parsed_ok
  /\ \E j \in 1..Len(instructions) : instructions[j].v.jump_to = i

(***************************************************************************)
(* C3: the extension level passed at construction selects the extension    *)
(* forms the loader recognises: a first line whose statement is the j-th   *)
(* extension form (j = 0, 1, 2) is stored by parse_assembly() exactly when *)
(* j <= ext.                                                               *)
(***************************************************************************)
C3_ExtLevelSelectsForms ==
  parse_result # "none" =>
    \A j \in 1..Len(ext_instructions) :
      (/\ Len(file) >= 1
       /\ LineMatch(file[1])
       /\ Matches(ext_instructions[j], CodeOf(file[1])))
      => (HasKey(instructions, IntOf(file[1][2])) <=> (j - 1) <= ext_arg)

(***************************************************************************)
(* C4, as claimed: a source whose lines are all recognised and carry       *)
(* distinct numbers is accepted exactly when the set of its line numbers   *)
(* is {1..N}, whatever the physical order of the lines.                    *)
(***************************************************************************)
C4_AcceptedIffNumberSetContiguous ==
  parse_result \in {"ok", "NonContiguous"} =>
    (parse_result = "ok"
       <=> {LineNumbers[j] : j \in 1..Len(LineNumbers)} = 1..Len(LineNumbers))

(***************************************************************************)
(* C4, amended: such a source is accepted exactly when its k-th numbered   *)
(* line, in physical order, carries the number k; every other one is       *)
(* rejected with the non-contiguous-numbering SyntaxError, also when its   *)
(* number set is {1..N}.                                                   *)
(***************************************************************************)
C4_AcceptedIffNumberedInOrder ==
  parse_result \in {"ok", "NonContiguous"} =>
    (parse_result = "ok"
       <=> \A j \in 1..Len(LineNumbers) : LineNumbers[j] = j)

\* a source with the numbers 1..N out of physical order has been rejected
C4_Witness ==
  /\ parse_result = "NonContiguous"
  /\ Len(LineNumbers) >= 2
  /\ {LineNumbers[j] : j \in 1..Len(LineNumbers)} = 1..Len(LineNumbers)

(***************************************************************************)
(* C5: run() executes no instruction unless some parse_assembly() has      *)
(* returned without raising.                                               *)
(***************************************************************************)
C5_NoExecutionBeforeValidParse == executed > 0 => parsed_ok

(***************************************************************************)
(* C6: one run() never executes more instructions than the step limit,     *)
(* here for the programs parse_assembly() accepted.                        *)
(***************************************************************************)
C6_ExecutedWithinLimit == parsed_ok => executed <= StepLimit

(***************************************************************************)
(* C7: run() terminates: a run in progress eventually ends, by Halt, by an *)
(* error or by the step budget, also in a program whose jumps form a cycle *)
(* with no Halt.                                                           *)
(***************************************************************************)
C7_RunTerminates == (rstate = "running") ~> Ended

\* a program with a backward jump and no Halt has been cut off
C7_Witness ==
  /\ parsed_ok
  /\ rstate \in {"cutoff", "StopIteration"}
  /\ executed >= 2
  /\ \A j \in 1..Len(instructions) : instructions[j].v.key # "halt"
  /\ \E j \in 1..Len(instructions) :
       /\ instructions[j].v.key \in {"jump", "jump_zero"}
       /\ instructions[j].v.jump_to <= instructions[j].k

(***************************************************************************)
(* C8: once a parse_assembly() has returned without error, the keys of the *)
(* instruction table are exactly 1..N, N the number of instructions, each  *)
(* instruction is stored under its own line_no, and this stays so through  *)
(* every later run() and parse_assembly().                                 *)
(***************************************************************************)
C8_LineNumbersContiguous ==
  parsed_ok =>
    /\ KeySet(instructions) = 1..Len(instructions)
    /\ \A j \in 1..Len(instructions) : instructions[j].v.line_no = instructions[j].k

\* a parsed program of several lines has been run to its end
C8_Witness ==
  /\ parsed_ok
  /\ Len(instructions) >= 2
  /\ runs >= 1
  /\ Ended

(***************************************************************************)
(* C9: executing Increment or Decrement on a variable holding None raises  *)
(* the uninitialized-variable error, ends the run and leaves the variable  *)
(* table as it was; on a variable holding an integer it changes exactly    *)
(* that variable by +1 or -1 and the next line executed, if the budget     *)
(* allows one, is i + 1.                                                   *)
(***************************************************************************)
C9_IncDecStep ==
  [][ (/\ rstate = "running"
       /\ HasKey(instructions, i)
       /\ Current.key \in {"inc", "dec"}
       /\ has_variables)
      => LET x == Current.value_one
             d == IF Current.key = "inc" THEN 1 ELSE -1
         IN  IF variables[x] = None
             THEN /\ rstate' = "TypeError"
                  /\ variables' = variables
                  /\ executed' = executed + 1
             ELSE /\ variables' = [variables EXCEPT ![x] = Some(variables[x][1] + d)]
                  /\ rstate' \in {"running", "cutoff"}
                  /\ rstate' = "running" => i' = i + 1 ]_vars

\* an Increment or Decrement of a variable holding None has ended a run
C9_Witness ==
  /\ rstate = "TypeError"
  /\ parsed_ok
  /\ Current.key \in {"inc", "dec"}
  /\ variables[Current.value_one] = None

(***************************************************************************)
(* C10: executing JumpIfZero(var, target) changes no variable; when var    *)
(* holds 0 the next line executed is target, with no line executed in      *)
(* between; when var holds another integer or None the next line executed  *)
(* is i + 1 and no error is raised.                                        *)
(***************************************************************************)
C10_JumpIfZeroStep ==
  [][ (Executing("jump_zero") /\ has_variables)
      => /\ variables' = variables
         /\ executed' = executed + 1
         /\ IF variables[Current.value_one] = Some(0)
            THEN /\ rstate' \in {"running", "cutoff", "StopIteration"}
                 /\ rstate' = "running" => i' = Current.jump_to
            ELSE /\ rstate' \in {"running", "cutoff"}
                 /\ rstate' = "running" => i' = i + 1 ]_vars

\* a JumpIfZero at line 1 on a variable holding 0 has been followed at once
\* by line 3
C10_Witness ==
  /\ parsed_ok
  /\ rstate = "running"
  /\ executed = 1
  /\ i = 3
  /\ HasKey(instructions, 3)
  /\ HasKey(instructions, 1)
  /\ Lookup(instructions, 1).key = "jump_zero"
  /\ variables[Lookup(instructions, 1).value_one] = Some(0)

(***************************************************************************)
(* C11: executing Halt ends run() at once and without error: the run is    *)
(* over with the halt outcome, no further line is taken from the           *)
(* generator, and the variable table is the one from just before the Halt. *)
(***************************************************************************)
C11_HaltStep ==
  [][ Executing("halt")
      => /\ rstate' = "halt"
         /\ variables' = variables
         /\ executed' = executed + 1
         /\ gen' = gen
         /\ i' = i ]_vars

\* the program "(1) stop" has been run with bindings and has left them alone
C11_Witness ==
  /\ rstate = "halt"
  /\ parsed_ok
  /\ executed = 1
  /\ Len(instructions) = 1
  /\ DOMAIN start_state # {}
  /\ DOMAIN variables = DOMAIN start_state
  /\ \A v \in DOMAIN start_state : variables[v] = Some(start_state[v])

\* line k of the file is numbered
Numbered(k) == ~IsComment(file[k]) /\ LineMatch(file[k])

\* line k of the file is numbered with a number that an earlier line carries
Repeats(k) ==
  /\ Numbered(k)
  /\ \E j \in 1..(k - 1) : Numbered(j) /\ file[j][2] = file[k][2]

\* line k of the file is the first line the loader stops at, and it stops
\* there for the repeated number
FirstRepeat(k) ==
  /\ Repeats(k)
  /\ \A j \in 1..(k - 1) :
       \/ IsComment(file[j])
       \/ Numbered(j) /\ ~Repeats(j) /\ Recognize(CodeOf(file[j]), ext) # ""

(***************************************************************************)
(* C12: when a line carries a number that an earlier line of the source    *)
(* carries, and no earlier line stops the loader, parse_assembly() raises  *)
(* the duplicate-line-number SyntaxError at that line, whatever its        *)
(* statement is and whatever the first line with that number holds: after  *)
(* the parse_assembly() calls of a parser that has not been run, the table *)
(* holds one instruction per numbered line before that line, and under the *)
(* repeated number still the instruction of its first line.                *)
(***************************************************************************)
C12_DuplicateRaisesAtFirstRepeat ==
  (parse_result # "none" /\ runs = 0) =>
    \A k \in 1..Len(file) :
      FirstRepeat(k) =>
        /\ parse_result = "Duplicate"
        /\ Len(instructions) = Cardinality({j \in 1..(k - 1) : Numbered(j)})
        /\ \A j \in 1..(k - 1) :
             (Numbered(j) /\ file[j][2] = file[k][2]) =>
               /\ HasKey(instructions, IntOf(file[k][2]))
               /\ Lookup(instructions, IntOf(file[k][2])).key
                    = Recognize(CodeOf(file[j]), ext)

\* a repeated number on a line whose statement no form matches, the first
\* line with that number holding a Transfer, has raised the duplicate error
C12_Witness ==
  /\ parse_result = "Duplicate"
  /\ runs = 0
  /\ \E k \in 1..Len(file) :
       /\ FirstRepeat(k)
       /\ Recognize(CodeOf(file[k]), ext) = ""
       /\ Lookup(instructions, IntOf(file[k][2])).key = "transfer"

\* the identifiers written in the statements of the numbered lines
FileIdentifiers ==
  {t \in Letters :
     \E k \in 1..Len(file) :
       Numbered(k) /\ \E p \in 4..Len(file[k]) : file[k][p] = t}

(***************************************************************************)
(* C13: after a successful parse_assembly(), and until an instruction is   *)
(* executed, the keys of the variable table are the identifiers written in *)
(* the statements of the source together with the keys of the initial      *)
(* bindings; a key of the bindings holds its integer, every other key      *)
(* holds None, which is not 0; a binding for an identifier no statement    *)
(* uses is kept.                                                           *)
(***************************************************************************)
C13_VariableTableAfterParse ==
  (parse_result = "ok" /\ runs <= 1 /\ executed = 0) =>
    /\ DOMAIN variables = FileIdentifiers \cup DOMAIN start_state
    /\ \A v \in DOMAIN variables :
         IF v \in DOMAIN start_state
         THEN variables[v] = Some(start_state[v])
         ELSE variables[v] = None /\ variables[v] # Some(0)

\* a parse has succeeded with a binding for an identifier the program does
\* not use, beside one it uses
C13_Witness ==
  /\ parse_result = "ok"
  /\ runs = 0
  /\ \E v \in DOMAIN start_state : v \notin FileIdentifiers
  /\ \E v \in DOMAIN start_state : v \in FileIdentifiers

(***************************************************************************)
(* C14: parse_assembly() can be repeated on the same parser: once a call   *)
(* has succeeded, every later call on that parser succeeds as well, so the *)
(* last call of a parser that has parsed its source has returned without   *)
(* raising.                                                                *)
(***************************************************************************)
C14_ReparseSucceeds == parsed_ok => parse_result = "ok"

\* the lines 1..executed of a parsed program, the ones its first run has
\* executed when none of them jumps, are all Increments and Decrements
OnlyIncDecExecuted ==
  /\ parsed_ok
  /\ runs = 1
  /\ executed <= Len(instructions)
  /\ \A j \in 1..executed : Lookup(instructions, j).key \in {"inc", "dec"}

\* how many of the executed lines are instructions of kind key on v
ExecutedOn(key, v) ==
  Cardinality({j \in 1..executed :
                 /\ Lookup(instructions, j).key = key
                 /\ Lookup(instructions, j).value_one = v})

(***************************************************************************)
(* C15: Increment and Decrement are inverses: when a run has executed only *)
(* Increments and Decrements, a variable on which it has executed as many  *)
(* Increments as Decrements, in whatever order, holds the value it had at  *)
(* the start of the run, and so does every variable it has not touched.    *)
(***************************************************************************)
C15_IncDecInverse ==
  OnlyIncDecExecuted =>
    \A v \in DOMAIN variables :
      ExecutedOn("inc", v) = ExecutedOn("dec", v) =>
        variables[v] = IF v \in DOMAIN start_state
                       THEN Some(start_state[v]) ELSE None

\* a run has executed a Decrement and then an Increment of a variable that
\* started at 0, beside a variable it has not touched
C15_Witness ==
  /\ OnlyIncDecExecuted
  /\ executed = 2
  /\ Lookup(instructions, 1).key = "dec"
  /\ Lookup(instructions, 2).key = "inc"
  /\ Lookup(instructions, 1).value_one = Lookup(instructions, 2).value_one
  /\ variables[Lookup(instructions, 1).value_one] = Some(0)
  /\ \E v \in DOMAIN variables : v # Lookup(instructions, 1).value_one

(***************************************************************************)
(* C16: executing Transfer(dest, src) gives dest the value src holds and   *)
(* raises nothing, also when src holds None: dest then holds None,         *)
(* whatever it held before; src and every other variable keep their        *)
(* values, and the next line executed, if the budget allows one, is i + 1. *)
(***************************************************************************)
C16_TransferStep ==
  [][ (Executing("transfer") /\ has_variables)
      => /\ variables' = [variables EXCEPT
                            ![Current.value_one] = variables[Current.value_two]]
         /\ executed' = executed + 1
         /\ rstate' \in {"running", "cutoff"}
         /\ rstate' = "running" => i' = i + 1 ]_vars

\* a Transfer from a variable holding None into a variable bound at the
\* start has been followed by an Increment or Decrement of that variable,
\* which has raised the uninitialized-variable error
C16_Witness ==
  /\ parsed_ok
  /\ runs = 1
  /\ rstate = "TypeError"
  /\ executed = 2
  /\ i = 2
  /\ Lookup(instructions, 1).key = "transfer"
  /\ Lookup(instructions, 2).key \in {"inc", "dec"}
  /\ Lookup(instructions, 2).value_one = Lookup(instructions, 1).value_one
  /\ Lookup(instructions, 1).value_one \in DOMAIN start_state
  /\ variables[Lookup(instructions, 1).value_one] = None
  /\ variables[Lookup(instructions, 1).value_two] = None

\* what one loop iteration on the current line leaves behind under the
\* verbose flag verb, the printed output apart
StepEffect(verb) ==
  LET b == Body(Current, variables, has_variables, gen, StepLimit)
  IN  <<b.variables, b.gen, BranchEnd(Current, b.status, verb).status>>

(***************************************************************************)
(* C17: the verbose flag only adds output: in every state a run() reaches, *)
(* with the flag or without it, the iteration on the current line leaves   *)
(* the same variable table, the same generator state, hence the same next  *)
(* line, and the same outcome under verbose=True as under verbose=False.   *)
(* As both runs start from the same state, they execute the same lines and *)
(* end alike.                                                              *)
(***************************************************************************)
C17_VerboseIsObservational ==
  (rstate = "running" /\ HasKey(instructions, i))
    => StepEffect(verbose) = StepEffect(~verbose)

\* a verbose run of a parsed program has printed lines and then ended on an
\* instruction that raised before its print
C17_Witness ==
  /\ parsed_ok
  /\ verbose
  /\ Ended
  /\ printed # <<>>
  /\ Len(printed) < Len(trace)

\* how a run() that is over has ended, as its caller sees it: a normal
\* return (by Halt or by the cutoff) or the exception raised
Outcome == IF rstate \in {"halt", "cutoff"} THEN "return" ELSE rstate

(***************************************************************************)
(* C18: the generator-driven loop of run() refines the explicit loop       *)
(* 'pc := 1; each step executes instructions[pc]; the next pc is pc + 1    *)
(* unless the instruction jumps, then it is the target; stop after the     *)
(* step limit': the first run of a parsed program has executed the lines   *)
(* the explicit loop executes, in the same order, and has ended with the   *)
(* same outcome and the same variable table, also when the step limit ends *)
(* it.                                                                     *)
(***************************************************************************)
C18_RefinesExplicitLoop ==
  (Ended /\ parsed_ok /\ runs = 1 /\ executed >= 1) =>
    LET Jumps(inst, vs) ==
          \/ inst.key = "jump"
          \/ inst.key = "jump_zero" /\ vs[inst.value_one] = Some(0)
        RECURSIVE Loop(_, _, _, _)
        Loop(pc, vs, steps, lines) ==
          IF steps = StepLimit
          THEN [outcome |-> "return", variables |-> vs, lines |-> lines]
          ELSE IF ~HasKey(instructions, pc)
          THEN [outcome |-> "KeyError", variables |-> vs, lines |-> lines]
          ELSE
            LET inst == Lookup(instructions, pc)
                b    == Body(inst, vs, TRUE, GenInit, StepLimit + 1)
            IN  IF b.status = "halt"
                THEN [outcome |-> "return", variables |-> b.variables,
                      lines |-> Append(lines, pc)]
                ELSE IF b.status # "next"
                THEN [outcome |-> b.status, variables |-> b.variables,
                      lines |-> Append(lines, pc)]
                ELSE Loop(IF Jumps(inst, vs) THEN inst.jump_to ELSE pc + 1,
                          b.variables, steps + 1, Append(lines, pc))
        ref == Loop(1, BuildVariables(instructions, start_state), 0, <<>>)
    IN  /\ trace = ref.lines
        /\ variables = ref.variables
        /\ Outcome = ref.outcome

(***************************************************************************)
(* C19: run() leaves the instruction set as the loader made it: neither    *)
(* the call of run() nor any iteration of its loop, whatever its outcome,  *)
(* adds, removes or alters an instruction, and of the parser's other       *)
(* fields (file, start_state, ext, the existence of the variable table)    *)
(* none changes either: run() changes the variable table and its own       *)
(* program counter only.                                                   *)
(***************************************************************************)
C19_RunLeavesInstructions ==
  [][ (rstate = "running" \/ runs' # runs)
      => /\ instructions' = instructions
         /\ file' = file
         /\ start_state' = start_state
         /\ ext' = ext
         /\ has_variables' = has_variables ]_vars

\* a parsed program has been run twice, the first run changing a variable
\* and ending with an error, and its instruction set is still the loader's
C19_Witness ==
  /\ parsed_ok
  /\ runs = 2
  /\ Ended
  /\ executed >= 2
  /\ rstate \in {"KeyError", "TypeError"}
  /\ variables # BuildVariables(instructions, start_state)
  /\ instructions = ParseLoop(file, 1, <<>>, ext).insts
  /\ Len(instructions) >= 2

(***************************************************************************)
(* C20: an executed instruction changes at most one variable: JumpIfZero,  *)
(* Jump and Halt change none, Increment, Decrement, SetZero, Transfer, Add *)
(* and AbsDiff change at most their value_one; the key set of the variable *)
(* table is the same after the instruction as before; and once a parse has *)
(* succeeded every variable the instruction names is a key of the table.   *)
(***************************************************************************)
C20_InstructionFrame ==
  [][ (rstate = "running" /\ HasKey(instructions, i))
      => /\ DOMAIN variables' = DOMAIN variables
         /\ \A v \in DOMAIN variables :
              variables'[v] # variables[v] =>
                /\ Current.key \notin {"jump_zero", "jump", "halt"}
                /\ v = Current.value_one
         /\ parsed_ok =>
              ({Current.value_one, Current.value_two, Current.value_three}
                 \ {NoAttr}) \subseteq DOMAIN variables ]_vars

\* a Transfer between two variables has changed its destination beside a
\* source that keeps its value
C20_Witness ==
  /\ parsed_ok
  /\ runs = 1
  /\ executed = 1
  /\ Lookup(instructions, 1).key = "transfer"
  /\ Lookup(instructions, 1).value_two # Lookup(instructions, 1).value_one
  /\ variables[Lookup(instructions, 1).value_one]
       # BuildVariables(instructions, start_state)[Lookup(instructions, 1).value_one]
  /\ variables[Lookup(instructions, 1).value_two]
       = BuildVariables(instructions, start_state)[Lookup(instructions, 1).value_two]

====
